---------------------------- MODULE Spec2Model ----------------------------
(***************************************************************************)
(* A model of scraper/scraper.py (crixppp/soloscanner): the path           *)
(* extractor, the five retailer adapters, the FETCHERS registry, the       *)
(* orchestrating loop of main() and write_prices().                        *)
(*                                                                         *)
(* The specifications of the module:                                       *)
(*   SpecExtract  extract_path applied to bounded trees and paths          *)
(*   SpecFetch    the try block of main() for one pack: one adapter        *)
(*                invocation on a bounded call, and build_entry            *)
(*   Spec         a run of main() over a bounded configuration             *)
(*   FairSpec     Spec with the fairness of a sequential program           *)
(***************************************************************************)
EXTENDS Integers, Sequences, FiniteSets, TLC

VARIABLES
    \* ---- extract_path (SpecExtract)
    xdata,        \* the `data` argument
    xpath,        \* the `dotted_path` argument, as its split('.') image
    xout,         \* Pending, or the outcome of the call
    \* ---- one adapter invocation (SpecFetch)
    call,         \* pack, credentials, environment and the HTTP reply
    result,       \* NotCalled, or the outcome of the adapter
    record,       \* what build_entry makes of the adapter's payload
    \* ---- main() (Spec)
    pc,           \* position in main()
    configFound,  \* whether load_config() finds a configuration file
    packs,        \* list(load_pack_configs(config))
    credentials,  \* config.get("credentials", {})
    environ,      \* os.environ["COLES_API_KEY"]
    i,            \* index of the pack the for loop handles next (1-based)
    entries,      \* the accumulating record list
    log,          \* history: the outcome of each pack handled so far
    now,          \* time.time(), a logical clock
    dataFile,     \* content of data/prices.json
    priorFile,    \* history: content of data/prices.json when the run began
    writes,       \* history: number of write_prices calls
    exitCode      \* Running, or the status the process exits with

xvars == <<xdata, xpath, xout>>
fvars == <<call, result, record>>
mvars == <<pc, configFound, packs, credentials, environ, i, entries, log, now,
           dataFile, priorFile, writes, exitCode>>
vars == <<xvars, fvars, mvars>>

(***************************************************************************)
(* Bounds of the model.                                                    *)
(***************************************************************************)
MaxLen == 2        \* longest list in an extract_path tree
MaxPathLen == 3    \* most segments in a dotted path
MaxPacks == 3      \* most packs in a configuration

(***************************************************************************)
(* JSON-like values, as json.load / response.json() produce them.          *)
(* Numbers are integers (whole currency units) in replies; floats computed *)
(* by the program are exact rationals, see Flt below.                      *)
(***************************************************************************)
None == [t |-> "none"]
Num(n) == [t |-> "num", n |-> n]
Str(s) == [t |-> "str", s |-> s]
List(xs) == [t |-> "list", items |-> xs]
Dict(m) == [t |-> "dict", m |-> m]
EmptyDict == Dict(<<>>)

IsNone(v) == v.t = "none"
IsDict(v) == v.t = "dict"
IsList(v) == v.t = "list"

\* Python truthiness, as `or` and `not` use it.
Truthy(v) ==
    CASE v.t = "none" -> FALSE
      [] v.t = "num"  -> v.n # 0
      [] v.t = "str"  -> v.s # ""
      [] v.t = "list" -> Len(v.items) > 0
      [] v.t = "dict" -> DOMAIN v.m # {}
      [] OTHER        -> TRUE

\* a or b
PyOr(a, b) == IF Truthy(a) THEN a ELSE b

\* dict.get(key): the value, or None when the key is missing.
DictGet(d, key) == IF key \in DOMAIN d.m THEN d.m[key] ELSE None

\* `key in dict`
HasKey(d, key) == key \in DOMAIN d.m

(***************************************************************************)
(* int(part) on a path segment: the decimal literals the model uses parse, *)
(* every other segment raises ValueError.                                  *)
(***************************************************************************)
IntLiterals == {"-3", "-2", "-1", "0", "1", "2", "3"}

IntOfLiteral(s) ==
    CASE s = "-3" -> -3
      [] s = "-2" -> -2
      [] s = "-1" -> -1
      [] s = "0"  -> 0
      [] s = "1"  -> 1
      [] s = "2"  -> 2
      [] s = "3"  -> 3

PyInt(part) ==
    IF part \in IntLiterals
        THEN [exc |-> "", val |-> IntOfLiteral(part)]
        ELSE [exc |-> "ValueError", val |-> 0]

(***************************************************************************)
(* current[idx] on a Python list: a negative idx counts from the end, and  *)
(* an idx outside -len .. len-1 raises IndexError.                         *)
(***************************************************************************)
ListIndex(items, idx) ==
    IF idx >= 0 /\ idx < Len(items)
        THEN [exc |-> "", val |-> items[idx + 1]]
    ELSE IF idx < 0 /\ -idx <= Len(items)
        THEN [exc |-> "", val |-> items[Len(items) + idx + 1]]
    ELSE [exc |-> "IndexError", val |-> None]

(***************************************************************************)
(* extract_path.  dotted_path is given as the list dotted_path.split('.'), *)
(* <<>> standing for a falsy dotted_path (None or "").                     *)
(***************************************************************************)
RECURSIVE WalkPath(_, _)
WalkPath(current, parts) ==
    IF parts = <<>> THEN [exc |-> "", val |-> current]          \* return current
    ELSE IF IsNone(current) THEN [exc |-> "", val |-> None]     \* line 84
    ELSE IF IsList(current) THEN
        LET idx == PyInt(Head(parts)) IN
        IF idx.exc # "" THEN [exc |-> "", val |-> None]         \* except ValueError
        ELSE IF idx.val >= Len(current.items) THEN [exc |-> "", val |-> None]
        ELSE LET el == ListIndex(current.items, idx.val) IN
             IF el.exc # "" THEN el                             \* propagates
             ELSE WalkPath(el.val, Tail(parts))
    ELSE IF IsDict(current) THEN
        WalkPath(DictGet(current, Head(parts)), Tail(parts))
    ELSE [exc |-> "", val |-> None]

extract_path(data, dotted_path) ==
    IF dotted_path = <<>> THEN [exc |-> "", val |-> None]
    ELSE WalkPath(data, dotted_path)

(***************************************************************************)
(* Bounded inputs of extract_path.                                         *)
(***************************************************************************)
SeqsUpTo(S, n) == UNION {[1..k -> S] : k \in 0..n}

Keys == {"a", "b"}

Wrap(S) ==
    {List(xs) : xs \in SeqsUpTo(S, MaxLen)}
        \cup {Dict(m) : m \in UNION {[K -> S] : K \in SUBSET Keys}}

Tree0 == {None, Num(1), Num(5)}
Tree1 == Wrap(Tree0)
Tree2 == Wrap({Num(1), Dict("b" :> Num(5)), List(<<Num(5)>>)})
Tree3 == Wrap({List(<<Dict("b" :> Num(5))>>)})
Trees == Tree0 \cup Tree1 \cup Tree2 \cup Tree3

Segments == {"a", "b", "x", "0", "1", "-1", "-3"}
Paths == SeqsUpTo(Segments, MaxPathLen)

Pending == [exc |-> "pending", val |-> None]

Extract ==
    /\ xout = Pending
    /\ xout' = extract_path(xdata, xpath)
    /\ UNCHANGED <<xdata, xpath, fvars, mvars>>

(***************************************************************************)
(* Floats.  A float is the exact rational num/den in lowest terms with     *)
(* den > 0, so that a computed unit price can be compared with             *)
(* total / pack_size without a tolerance.                                  *)
(***************************************************************************)
Abs(n) == IF n < 0 THEN -n ELSE n

RECURSIVE Gcd(_, _)
Gcd(a, b) == IF b = 0 THEN a ELSE Gcd(b, a % b)

Flt(n, d) ==
    LET s == IF d < 0 THEN -1 ELSE 1
        g == Gcd(Abs(n), Abs(d))
    IN  [t |-> "float", num |-> (s * n) \div g, den |-> (s * d) \div g]

IsNumber(v) == v.t \in {"num", "float"}

\* A conversion that lets None through.
PyFloatOrNone(v) ==
    CASE v.t = "num"   -> [exc |-> "", val |-> Flt(v.n, 1)]
      [] v.t = "float" -> [exc |-> "", val |-> v]
      [] v.t = "none"  -> [exc |-> "", val |-> None]
      [] v.t = "str"   -> [exc |-> "ValueError", val |-> None]
      [] OTHER         -> [exc |-> "TypeError", val |-> None]

\* float(v): numbers convert; a string that is no number literal raises
\* ValueError (the model's strings are none); None, lists and dicts raise
\* TypeError.
PyFloat(v) ==
    CASE v.t = "num"   -> [exc |-> "", val |-> Flt(v.n, 1)]
      [] v.t = "float" -> [exc |-> "", val |-> v]
      [] v.t = "str"   -> [exc |-> "ValueError", val |-> None]
      [] OTHER         -> [exc |-> "TypeError", val |-> None]

\* f / k for a float f and a non-zero int k.
FloatDiv(f, k) == Flt(f.num, f.den * k)

\* round(v, 2): to the nearest hundredth, ties to the even hundredth;
\* a value that is no number raises TypeError.
PyRound2(v) ==
    IF ~IsNumber(v) THEN [exc |-> "TypeError", val |-> None]
    ELSE
        LET f == IF v.t = "num" THEN Flt(v.n, 1) ELSE v
            scaled == 100 * f.num              \* hundredths are scaled / f.den
            q == scaled \div f.den             \* floor
            r == scaled % f.den                \* 0 <= r < f.den
            cents == IF 2 * r > f.den THEN q + 1
                     ELSE IF 2 * r < f.den THEN q
                     ELSE IF q % 2 = 0 THEN q ELSE q + 1
        IN  [exc |-> "", val |-> Flt(cents, 100)]

(***************************************************************************)
(* Outcome of an adapter: an exception (exc, msg) or a payload, with the   *)
(* HTTP requests the adapter issued before it ended.                       *)
(***************************************************************************)
NoPayload == [price_total |-> None, price_unit |-> None, checked_at |-> 0]

Raise(exc, msg, sent) ==
    [exc |-> exc, msg |-> msg, payload |-> NoPayload, sent |-> sent]

Return(payload, sent) ==
    [exc |-> "", msg |-> "", payload |-> payload, sent |-> sent]

\* One HTTP request: the endpoint and the subscription key header, if any.
Request(endpoint, key) == [endpoint |-> endpoint, key |-> key]

\* session.get / session.post, raise_for_status() and response.json():
\* the exception they raise, "" when `reply.data` is the parsed body.
ReplyError(reply) ==
    CASE reply.status = "conn_error" -> "ConnectionError"
      [] reply.status = "http_error" -> "HTTPError"
      [] reply.status = "bad_json"   -> "JSONDecodeError"
      [] OTHER                       -> ""

(***************************************************************************)
(* The tail every adapter ends with (lines 126-136, 155-165, 200-210,      *)
(* 231-241, 261-271): the missing-price check, the unit price fallback     *)
(* and the payload.                                                        *)
(***************************************************************************)
UnitFallbackApplies(unit_price, pack_size) ==
    IsNone(unit_price) /\ pack_size # 0      \* unit_price is None and pack.pack_size

PricePayload(price_total, unit_price, pack, t, sent, missing) ==
    IF IsNone(price_total) THEN Raise("ValueError", missing, sent)
    ELSE
        LET ft == PyFloat(price_total)
            derive == UnitFallbackApplies(unit_price, pack.pack_size)
            unit == IF derive /\ ft.exc = ""
                        THEN FloatDiv(ft.val, pack.pack_size)
                        ELSE unit_price
            fu == PyFloat(unit)
        IN  IF ft.exc # "" THEN Raise(ft.exc, "float(price_total)", sent)
            ELSE IF fu.exc # "" THEN Raise(fu.exc, "float(unit_price)", sent)
            ELSE Return([price_total |-> ft.val, price_unit |-> fu.val,
                         checked_at |-> t], sent)

\* extract_path as the adapters call it, on literal paths: an exception of
\* extract_path would leave the adapter (none of the literal paths has a
\* numeric segment, so none arises).
Path(data, dotted_path) == extract_path(data, dotted_path).val

(***************************************************************************)
(* fetch_dan_murphys                                                       *)
(***************************************************************************)
DanMurphysPriceInfo(data) ==
    \* the value of price_info at line 120, or an AttributeError on the way
    IF ~IsDict(data) THEN [exc |-> "", val |-> None]
    ELSE
        LET direct == PyOr(DictGet(data, "Price"), DictGet(data, "price")) IN
        IF Truthy(direct) \/ ~HasKey(data, "Products")
            THEN [exc |-> "", val |-> direct]
        ELSE
            LET products == PyOr(PyOr(DictGet(data, "Products"),
                                      DictGet(data, "products")), List(<<>>))
            IN  IF ~(IsList(products) /\ Truthy(products))
                    THEN [exc |-> "", val |-> direct]
                ELSE IF ~IsDict(products.items[1])
                    THEN [exc |-> "AttributeError", val |-> None]
                ELSE [exc |-> "",
                      val |-> PyOr(DictGet(products.items[1], "Price"),
                                   DictGet(products.items[1], "price"))]

fetch_dan_murphys(pack, reply, t) ==
    IF ~Truthy(pack.product_id)
        THEN Raise("ValueError", "product_id required", <<>>)
    ELSE
        LET sent == <<Request("danmurphys", "")>>
            info == DanMurphysPriceInfo(reply.data)
        IN  IF ReplyError(reply) # "" THEN Raise(ReplyError(reply), "", sent)
            ELSE IF info.exc # "" THEN Raise(info.exc, "", sent)
            ELSE IF ~Truthy(info.val)
                THEN Raise("ValueError", "unable to locate price data", sent)
            ELSE IF ~IsDict(info.val) THEN Raise("AttributeError", "", sent)
            ELSE
                LET price_total ==
                        PyOr(PyOr(DictGet(info.val, "FinalPrice"),
                                  DictGet(info.val, "Price")),
                             DictGet(info.val, "SalePrice"))
                    unit_price ==
                        PyOr(DictGet(info.val, "UnitPrice"),
                             DictGet(info.val, "CupPrice"))
                IN  PricePayload(price_total, unit_price, pack, t, sent,
                                 "missing price")

(***************************************************************************)
(* fetch_bws                                                               *)
(***************************************************************************)
fetch_bws(pack, reply, t) ==
    IF ~Truthy(pack.product_id)
        THEN Raise("ValueError", "product_id required", <<>>)
    ELSE
        LET sent == <<Request("bws", "")>>
            data == reply.data
        IN  IF ReplyError(reply) # "" THEN Raise(ReplyError(reply), "", sent)
            ELSE IF ~IsDict(data) THEN Raise("AttributeError", "", sent)
            ELSE
                LET price_info ==
                        PyOr(PyOr(DictGet(data, "price"), DictGet(data, "Price")),
                             EmptyDict)
                IN  IF ~IsDict(price_info) THEN Raise("AttributeError", "", sent)
                    ELSE
                        LET price_total ==
                                PyOr(PyOr(DictGet(price_info, "current"),
                                          DictGet(price_info, "ActualPrice")),
                                     DictGet(data, "price"))
                            unit_price ==
                                PyOr(DictGet(price_info, "perItem"),
                                     DictGet(price_info, "CupPrice"))
                        IN  PricePayload(price_total, unit_price, pack, t, sent,
                                         "missing price")

(***************************************************************************)
(* fetch_liquorland_like                                                   *)
(***************************************************************************)
fetch_liquorland_like(pack, reply, t) ==
    IF ~Truthy(pack.product_id)
        THEN Raise("ValueError", "product_id required", <<>>)
    ELSE
        LET sent == <<Request("liquorland-graphql", "")>>
            product == Path(reply.data, <<"data", "product">>)
        IN  IF ReplyError(reply) # "" THEN Raise(ReplyError(reply), "", sent)
            ELSE IF ~Truthy(product)
                THEN Raise("ValueError", "missing product node", sent)
            ELSE PricePayload(Path(product, <<"pricing", "current">>),
                              Path(product, <<"cupPrice">>),
                              pack, t, sent, "missing price")

(***************************************************************************)
(* fetch_coles                                                             *)
(***************************************************************************)
\* The environment consulted first.
ResolveApiKeyEnvFirst(creds, env) == PyOr(env, DictGet(creds, "coles_api_key"))

\* credentials.get("coles_api_key") or os.getenv("COLES_API_KEY")
ResolveApiKey(creds, env) == PyOr(DictGet(creds, "coles_api_key"), env)

fetch_coles(pack, reply, t, creds, env) ==
    LET api_key == ResolveApiKey(creds, env) IN
    IF ~Truthy(api_key)
        THEN Raise("ValueError", "Coles API key missing", <<>>)
    ELSE IF ~Truthy(pack.product_id)
        THEN Raise("ValueError", "product_id required", <<>>)
    ELSE
        LET sent == <<Request("coles", api_key.s)>>
            data == reply.data
        IN  IF ReplyError(reply) # "" THEN Raise(ReplyError(reply), "", sent)
            ELSE PricePayload(
                    PyOr(Path(data, <<"product", "price", "current">>),
                         Path(data, <<"productPrice", "current">>)),
                    PyOr(Path(data, <<"product", "price", "unit">>),
                         Path(data, <<"productPrice", "unit">>)),
                    pack, t, sent, "missing price")

(***************************************************************************)
(* fetch_woolworths                                                        *)
(***************************************************************************)
fetch_woolworths(pack, reply, t) ==
    IF ~Truthy(pack.product_id)
        THEN Raise("ValueError", "product_id required", <<>>)
    ELSE
        LET sent == <<Request("woolworths", "")>>
            data == reply.data
            product == PyOr(Path(data, <<"ProductDetail">>), data)
            nested == PyOr(Path(product, <<"Price", "FinalPrice">>),
                           Path(product, <<"Price", "SalePrice">>))
            price_total == IF IsNone(nested) /\ IsDict(product)
                               THEN DictGet(product, "Price")
                               ELSE nested
        IN  IF ReplyError(reply) # "" THEN Raise(ReplyError(reply), "", sent)
            ELSE PricePayload(price_total,
                              Path(product, <<"Price", "CupPrice">>),
                              pack, t, sent, "missing price")

(***************************************************************************)
(* FETCHERS and the call of line 332-334.                                  *)
(***************************************************************************)
FETCHERS ==
    {"dan_murphys", "bws", "liquorland", "first_choice", "coles", "woolworths"}

Fetcher(pack, reply, t, creds, env) ==
    CASE pack.source = "dan_murphys"  -> fetch_dan_murphys(pack, reply, t)
      [] pack.source = "bws"          -> fetch_bws(pack, reply, t)
      [] pack.source = "liquorland"   -> fetch_liquorland_like(pack, reply, t)
      [] pack.source = "first_choice" -> fetch_liquorland_like(pack, reply, t)
      [] pack.source = "coles"        -> fetch_coles(pack, reply, t, creds, env)
      [] pack.source = "woolworths"   -> fetch_woolworths(pack, reply, t)

(***************************************************************************)
(* PackConfig (lines 32-56); store_id, headers and extra only shape the    *)
(* request and are left out.                                               *)
(***************************************************************************)
PackConfig(retailer, pack_size, source, product_id) ==
    [retailer |-> retailer, suburb |-> "", pack_size |-> pack_size,
     url |-> "", source |-> source, product_id |-> product_id]

(***************************************************************************)
(* Bounded replies.  A reply body is built from a shape (where the prices  *)
(* sit), the total price T and the unit price U it carries; None for T or  *)
(* U leaves the field out.                                                 *)
(***************************************************************************)
\* A JSON object of the fields of f whose value is not None.
Obj(f) == Dict([k \in {k \in DOMAIN f : ~IsNone(f[k])} |-> f[k]])

Body(shape, T, U) ==
    CASE shape = "dm:Price" ->
            Obj("Price" :> Obj("FinalPrice" :> T @@ "UnitPrice" :> U))
      [] shape = "dm:price" ->
            Obj("price" :> Obj("SalePrice" :> T @@ "CupPrice" :> U))
      [] shape = "dm:Products" ->
            Obj("Products" :>
                List(<<Obj("Price" :> Obj("Price" :> T @@ "UnitPrice" :> U))>>))
      [] shape = "dm:scalar" -> Obj("Price" :> T)
      [] shape = "bws:price" ->
            Obj("price" :> Obj("current" :> T @@ "perItem" :> U))
      [] shape = "bws:Price" ->
            Obj("Price" :> Obj("ActualPrice" :> T @@ "CupPrice" :> U))
      [] shape = "bws:flat" -> Obj("price" :> T)
      [] shape = "bws:Price+flat" ->
            Obj("Price" :> Obj("CupPrice" :> U) @@ "price" :> T)
      [] shape = "ll:graphql" ->
            Obj("data" :> Obj("product" :>
                Obj("pricing" :> Obj("current" :> T) @@ "cupPrice" :> U)))
      [] shape = "ll:no-product" -> Obj("data" :> EmptyDict)
      [] shape = "coles:product" ->
            Obj("product" :> Obj("price" :> Obj("current" :> T @@ "unit" :> U)))
      [] shape = "coles:productPrice" ->
            Obj("productPrice" :> Obj("current" :> T @@ "unit" :> U))
      [] shape = "ww:ProductDetail" ->
            Obj("ProductDetail" :>
                Obj("Price" :> Obj("FinalPrice" :> T @@ "CupPrice" :> U)))
      [] shape = "ww:root" ->
            Obj("Price" :> Obj("SalePrice" :> T @@ "CupPrice" :> U))
      [] shape = "ww:flat" -> Obj("Price" :> T)
      [] shape = "any:list" -> List(<<>>)

\* The shapes in which the specification's table places a total price, per
\* source key.
PriceShapes(source) ==
    CASE source = "dan_murphys" -> {"dm:Price", "dm:price", "dm:Products"}
      [] source = "bws" -> {"bws:price", "bws:Price", "bws:flat", "bws:Price+flat"}
      [] source \in {"liquorland", "first_choice"} -> {"ll:graphql"}
      [] source = "coles" -> {"coles:product", "coles:productPrice"}
      [] source = "woolworths" -> {"ww:ProductDetail", "ww:root", "ww:flat"}
      [] OTHER -> {}

\* Shapes that carry no price where the adapter looks.
OddShapes(source) ==
    CASE source = "dan_murphys" -> {"dm:scalar", "any:list"}
      [] source \in {"liquorland", "first_choice"} -> {"ll:no-product"}
      [] OTHER -> {"any:list"}

\* Shapes with no place for a unit price.
FlatShapes == {"bws:flat", "ww:flat", "dm:scalar", "ll:no-product", "any:list"}

Totals == {None, Num(0), Num(30), Str("n/a")}
Units == {None, Num(0), Num(5)}
PackSizes == {-6, 0, 7}
ProductIds == {None, Str("p1")}
ApiKeys == {None, Str(""), Str("cfg-key")}
EnvKeys == {None, Str(""), Str("env-key")}

Credentials(key) == Obj("coles_api_key" :> key)

OkReplies(source) ==
    {[status |-> "ok", shape |-> sh, total |-> T, unit |-> U, data |-> Body(sh, T, U)] :
        sh \in PriceShapes(source) \cup OddShapes(source),
        T \in Totals, U \in Units}

FailedReplies ==
    {[status |-> st, shape |-> "none", total |-> None, unit |-> None, data |-> None] :
        st \in {"conn_error", "http_error", "bad_json"}}

\* A reply whose shape has no unit price field is listed once, with U = None.
Replies(source) ==
    {r \in OkReplies(source) : r.shape \in FlatShapes => IsNone(r.unit)}
        \cup FailedReplies

\* Calls whose reply is one the pack's source can get; credentials and the
\* environment vary for Coles alone, the only adapter that reads them.
CallsOf(src) ==
    {[pack |-> PackConfig("R", ps, src, pid), reply |-> r, creds |-> Credentials(k),
      env |-> e] :
        ps \in PackSizes, pid \in ProductIds, r \in Replies(src),
        k \in IF src = "coles" THEN ApiKeys ELSE {None},
        e \in IF src = "coles" THEN EnvKeys ELSE {None}}

Calls == UNION {CallsOf(src) : src \in FETCHERS}

NoCall ==
    [pack |-> PackConfig("", 0, "", None), reply |-> CHOOSE r \in FailedReplies : TRUE,
     creds |-> EmptyDict, env |-> None]

NotCalled == [exc |-> "pending", msg |-> "", payload |-> NoPayload, sent |-> <<>>]

(***************************************************************************)
(* build_entry and write_prices.                                           *)
(***************************************************************************)
build_entry(pack, payload) ==
    LET rt == PyRound2(payload.price_total)
        ru == PyRound2(payload.price_unit)
    IN  IF rt.exc # "" THEN [exc |-> rt.exc, val |-> None]
        ELSE IF ru.exc # "" THEN [exc |-> ru.exc, val |-> None]
        ELSE [exc |-> "",
              val |-> [retailer |-> pack.retailer, suburb |-> pack.suburb,
                       pack_size |-> pack.pack_size, price_total |-> rt.val,
                       price_unit |-> ru.val, url |-> pack.url,
                       checked_at |-> payload.checked_at]]

\* A file opened for appending: the new items follow the old.
write_prices_appending(items, old, t) ==
    [exists |-> TRUE, updated_at |-> t, items |-> old.items \o items]

\* The content of data/prices.json after write_prices(entries) at time t,
\* `old` being its content before: the file is opened with "w".
write_prices(items, old, t) ==
    [exists |-> TRUE, updated_at |-> t, items |-> items]

NoFile == [exists |-> FALSE, updated_at |-> 0, items |-> <<>>]

\* A snapshot an earlier run left behind.
OldSnapshot ==
    [exists |-> TRUE, updated_at |-> 0,
     items |-> <<[retailer |-> "Old", suburb |-> "", pack_size |-> 10,
                  price_total |-> Flt(40, 1), price_unit |-> Flt(4, 1), url |-> "",
                  checked_at |-> 0]>>]

(***************************************************************************)
(* main().  One action per step of the function; the body of the for loop  *)
(* (lines 326-337) is one action per way through it.                       *)
(***************************************************************************)
Retailer(source) ==
    CASE source = "dan_murphys" -> "Dan Murphy's"
      [] source = "coles"       -> "Coles"
      [] OTHER                  -> "Corner Store"

\* The packs a configuration of the model may list: a Dan Murphy's pack of
\* seven, a Coles pack whose pack_size is 0, and a pack whose source key
\* ("custom", the default of PackConfig.from_dict) is not in FETCHERS.
MainPackSize(source) == IF source = "coles" THEN 0 ELSE 7

MainPacks ==
    {PackConfig(Retailer(src), MainPackSize(src), src, Str("p1")) :
        src \in {"dan_murphys", "coles", "custom"}}

\* The replies a fetch may get in a run of main().
MainShape(source) ==
    IF source = "coles" THEN "coles:product" ELSE "dm:Price"

MainReplies(source) ==
    {r \in Replies(source) :
        \/ r.status = "http_error"
        \/ /\ r.status = "ok"
           /\ r.shape = MainShape(source)
           /\ r.total \in {None, Num(30)}
           /\ r.unit \in {None, Num(5)}}

\* What the try block of lines 330-335 comes to for one pack and one reply:
\* the adapter's outcome, and the record build_entry makes of its payload.
Attempt(pack, out) ==
    LET built == IF out.exc = "" THEN build_entry(pack, out.payload)
                 ELSE [exc |-> out.exc, val |-> None]
    IN  [out |-> out, exc |-> built.exc, entry |-> built.val]

TryPack(pack, reply, t, creds, env) ==
    Attempt(pack, Fetcher(pack, reply, t, creds, env))

\* A list built newest first.
PrependEntry(es, e) == <<e>> \o es

NoRecord == [exc |-> "pending", val |-> None]

\* lines 332-335 for the pack and the reply of `call`: the adapter is
\* invoked and, if it returns, build_entry makes the record of its payload.
Invoke ==
    /\ result = NotCalled
    /\ record = NoRecord
    /\ call # NoCall
    /\ \E try \in {TryPack(call.pack, call.reply, 0, call.creds, call.env)} :
          /\ result' = try.out
          /\ record' = [exc |-> try.exc, val |-> try.entry]
    /\ UNCHANGED <<call, xvars, mvars>>

\* entries.append(...)
AppendEntry(es, e) == Append(es, e)

\* A loop that a failed pack ends.
NextPackUnlessFailed(k, n, how) == IF how = "failed" THEN n + 1 ELSE k + 1

\* The for loop moves to the next pack after `continue`, after the try block
\* and after the except block alike.
NextPack(k, n, how) == k + 1

\* A run that writes whatever it has.
NeverNothing(es) == FALSE

\* `if not entries` at line 339.
NothingCollected(es) == es = <<>>

\* load_config() finds no file: FileNotFoundError leaves main(), and the
\* interpreter exits with status 1.
ConfigMissing ==
    /\ pc = "load"
    /\ ~configFound
    /\ pc' = "done"
    /\ exitCode' = "1"
    /\ UNCHANGED <<xvars, fvars, priorFile, configFound, packs, credentials,
                   environ, i, entries, log, now, dataFile, writes>>

\* lines 317-319
NoPacks ==
    /\ pc = "load"
    /\ configFound
    /\ packs = <<>>
    /\ pc' = "done"
    /\ exitCode' = "1"
    /\ UNCHANGED <<xvars, fvars, priorFile, configFound, packs, credentials,
                   environ, i, entries, log, now, dataFile, writes>>

\* lines 321-324
StartLoop ==
    /\ pc = "load"
    /\ configFound
    /\ packs # <<>>
    /\ pc' = "loop"
    /\ UNCHANGED <<xvars, fvars, priorFile, configFound, packs, credentials,
                   environ, i, entries, log, now, dataFile, writes, exitCode>>

\* lines 326-329
SkipPack ==
    /\ pc = "loop"
    /\ i <= Len(packs)
    /\ packs[i].source \notin FETCHERS
    /\ log' = Append(log, [pack |-> i, how |-> "skipped", out |-> NotCalled])
    /\ i' = NextPack(i, Len(packs), "skipped")
    /\ UNCHANGED <<xvars, fvars, priorFile, pc, configFound, packs,
                   credentials, environ, entries, now, dataFile, writes,
                   exitCode>>

\* lines 330-335, the try block running to its end
FetchOk ==
    /\ pc = "loop"
    /\ i <= Len(packs)
    /\ packs[i].source \in FETCHERS
    /\ \E reply \in MainReplies(packs[i].source) :
        \E try \in {TryPack(packs[i], reply, now, credentials, environ)} :
          /\ try.exc = ""
          /\ entries' = AppendEntry(entries, try.entry)
          /\ log' = Append(log, [pack |-> i, how |-> "ok", out |-> try.out])
    /\ i' = NextPack(i, Len(packs), "ok")
    /\ now' = now + 1
    /\ UNCHANGED <<xvars, fvars, priorFile, pc, configFound, packs,
                   credentials, environ, dataFile, writes, exitCode>>

\* lines 330-337, an exception in the try block
FetchFailed ==
    /\ pc = "loop"
    /\ i <= Len(packs)
    /\ packs[i].source \in FETCHERS
    /\ \E reply \in MainReplies(packs[i].source) :
        \E try \in {TryPack(packs[i], reply, now, credentials, environ)} :
          /\ try.exc # ""
          /\ log' = Append(log, [pack |-> i, how |-> "failed", out |-> try.out])
    /\ i' = NextPack(i, Len(packs), "failed")
    /\ now' = now + 1
    /\ UNCHANGED <<xvars, fvars, priorFile, pc, configFound, packs,
                   credentials, environ, entries, dataFile, writes, exitCode>>

\* the for loop is exhausted
LoopEnd ==
    /\ pc = "loop"
    /\ i > Len(packs)
    /\ pc' = "after"
    /\ UNCHANGED <<xvars, fvars, priorFile, configFound, packs, credentials,
                   environ, i, entries, log, now, dataFile, writes, exitCode>>

\* lines 339-341
NoData ==
    /\ pc = "after"
    /\ NothingCollected(entries)
    /\ pc' = "done"
    /\ exitCode' = "1"
    /\ UNCHANGED <<xvars, fvars, priorFile, configFound, packs, credentials,
                   environ, i, entries, log, now, dataFile, writes>>

\* lines 343-345
WritePrices ==
    /\ pc = "after"
    /\ ~NothingCollected(entries)
    /\ dataFile' = write_prices(entries, dataFile, now)
    /\ writes' = writes + 1
    /\ pc' = "done"
    /\ exitCode' = "0"
    /\ UNCHANGED <<xvars, fvars, priorFile, configFound, packs, credentials,
                   environ, i, entries, log, now>>

(***************************************************************************)
(* The specifications.  Each leaves the variables of the other two at      *)
(* rest.                                                                   *)
(***************************************************************************)
InitExtract ==
    /\ xdata \in Trees
    /\ xpath \in Paths
    /\ xout = Pending
    /\ call = NoCall
    /\ result = NotCalled
    /\ record = NoRecord
    /\ pc = "idle"
    /\ configFound = FALSE
    /\ packs = <<>>
    /\ credentials = EmptyDict
    /\ environ = None
    /\ i = 1
    /\ entries = <<>>
    /\ log = <<>>
    /\ now = 0
    /\ dataFile = NoFile
    /\ priorFile = NoFile
    /\ writes = 0
    /\ exitCode = "idle"

SpecExtract == InitExtract /\ [][Extract]_vars

InitFetch ==
    /\ call \in Calls
    /\ result = NotCalled
    /\ record = NoRecord
    /\ xdata = None
    /\ xpath = <<>>
    /\ xout = Pending
    /\ pc = "idle"
    /\ configFound = FALSE
    /\ packs = <<>>
    /\ credentials = EmptyDict
    /\ environ = None
    /\ i = 1
    /\ entries = <<>>
    /\ log = <<>>
    /\ now = 0
    /\ dataFile = NoFile
    /\ priorFile = NoFile
    /\ writes = 0
    /\ exitCode = "idle"

SpecFetch == InitFetch /\ [][Invoke]_vars

Init ==
    /\ pc = "load"
    /\ configFound \in BOOLEAN
    /\ packs \in IF configFound THEN SeqsUpTo(MainPacks, MaxPacks) ELSE {<<>>}
    /\ credentials \in {Credentials(None), Credentials(Str("cfg-key"))}
    /\ environ = None
    /\ i = 1
    /\ entries = <<>>
    /\ log = <<>>
    /\ now = 0
    /\ dataFile \in {NoFile, OldSnapshot}
    /\ priorFile = dataFile
    /\ writes = 0
    /\ exitCode = "running"
    /\ xdata = None
    /\ xpath = <<>>
    /\ xout = Pending
    /\ call = NoCall
    /\ result = NotCalled
    /\ record = NoRecord

Next ==
    \/ ConfigMissing
    \/ NoPacks
    \/ StartLoop
    \/ SkipPack
    \/ FetchOk
    \/ FetchFailed
    \/ LoopEnd
    \/ NoData
    \/ WritePrices

Spec == Init /\ [][Next]_vars

\* main() is a sequential program that the interpreter keeps running: the
\* step it is at is taken.  A fetch ends, with an exception or a payload
\* (every request has timeout=20); which of the two is up to the retailer.
FairSpec ==
    /\ Spec
    /\ WF_vars(ConfigMissing \/ NoPacks \/ StartLoop)
    /\ WF_vars(SkipPack)
    /\ WF_vars(FetchFailed \/ FetchOk)
    /\ WF_vars(LoopEnd)
    /\ WF_vars(NoData \/ WritePrices)

(***************************************************************************)
(*                              THE CLAIMS                                 *)
(***************************************************************************)

(***************************************************************************)
(* Vocabulary of the orchestrator claims.                                  *)
(***************************************************************************)
\* Pack j has been handled, its source key is registered and its adapter
\* returned a payload.
Fetched(j) ==
    /\ j <= Len(log)
    /\ packs[j].source \in FETCHERS
    /\ log[j].out.exc = ""

\* The records of the fetched packs among the first n, in configured order.
RECURSIVE RecordsOfFetched(_)
RecordsOfFetched(n) ==
    IF n = 0 THEN <<>>
    ELSE IF Fetched(n)
        THEN Append(RecordsOfFetched(n - 1),
                    build_entry(packs[n], log[n].out.payload).val)
        ELSE RecordsOfFetched(n - 1)

\* The packs handled so far are the first ones, each once, in order.
HandledOnceInOrder ==
    /\ Len(log) <= Len(packs)
    /\ \A j \in 1..Len(log) : log[j].pack = j
    /\ pc = "loop" => Len(log) = i - 1

AllHandled == Len(log) = Len(packs)

Outcomes == {log[j].how : j \in 1..Len(log)}

\* C1: at every moment the record list is exactly the records of the packs
\* handled so far whose source key is registered and whose adapter returned
\* a payload, one each, in configured order; skipped and failed packs add
\* nothing.
C1_RecordsAreFetchedPacksInOrder ==
    /\ entries = RecordsOfFetched(Len(log))
    /\ Len(entries) = Cardinality({j \in 1..Len(log) : Fetched(j)})
    /\ pc \in {"after", "done"} /\ packs # <<>> => AllHandled

\* C1 witness: a finished run of three packs, the first and the last fetched
\* for different retailers with different prices, the middle one not.
C1_Witness ==
    /\ pc = "done"
    /\ Len(packs) = 3
    /\ Fetched(1) /\ ~Fetched(2) /\ Fetched(3)
    /\ Len(entries) = 2
    /\ entries[1].retailer = "Dan Murphy's"
    /\ entries[2].retailer = "Coles"
    /\ entries[1].price_unit # entries[2].price_unit

\* C2: every configured pack is handled exactly once and in order, whatever
\* the earlier packs did, and once the loop is entered it reaches the end of
\* the pack list with every pack handled.
C2_EveryPackHandledOnce ==
    /\ [](HandledOnceInOrder /\ (pc \in {"after", "done"} /\ packs # <<>> => AllHandled))
    /\ (pc = "loop") ~> (pc = "done" /\ AllHandled)

\* C2 witness: a finished run whose first pack failed and whose second was
\* skipped, the third handled all the same.
C2_Witness ==
    /\ pc = "done"
    /\ Len(packs) = 3
    /\ Len(log) = 3
    /\ log[1].how = "failed"
    /\ log[2].how = "skipped"
    /\ log[3].how = "ok"

\* C3: the run exits 0 exactly when it produced a record, and writes the
\* artifact exactly then; with no record it exits 1, write_prices is not
\* called and the artifact is what it was.  Three packs, one skipped, one
\* failed and one fetched, give one record and exit code 0.
C3_ExitZeroIffRecords ==
    /\ pc # "done" => exitCode = "running" /\ writes = 0
    /\ pc = "done" =>
        /\ exitCode \in {"0", "1"}
        /\ exitCode = "0" <=> entries # <<>>
        /\ writes = 1 <=> entries # <<>>
        /\ entries = <<>> => exitCode = "1" /\ writes = 0 /\ dataFile = priorFile
        /\ (Len(packs) = 3 /\ Outcomes = {"skipped", "failed", "ok"}) =>
              /\ Len(dataFile.items) = 1
              /\ exitCode = "0"

\* C3 witness: the finished run of three packs, one of each outcome.
C3_Witness ==
    /\ pc = "done"
    /\ Len(packs) = 3
    /\ Outcomes = {"skipped", "failed", "ok"}
    /\ exitCode = "0"

\* C3, second case: every adapter invocation failed over an existing
\* artifact.
C3_WitnessAllFailed ==
    /\ pc = "done"
    /\ Len(packs) = 3
    /\ Outcomes = {"failed"}
    /\ priorFile = OldSnapshot
    /\ exitCode = "1"

\* C4: the artifact is written at most once, only after every configured
\* pack has been handled, and what is written is the whole final record
\* list, replacing what the file held.
C4_NoPartialOutput ==
    /\ writes <= 1
    /\ writes = 0 => dataFile = priorFile
    /\ writes = 1 =>
        /\ pc = "done"
        /\ AllHandled
        /\ i > Len(packs)
        /\ dataFile.exists
        /\ dataFile.items = entries
        /\ entries = RecordsOfFetched(Len(packs))

\* C4 witness: a written artifact over an earlier snapshot, after a run in
\* which a pack failed.
C4_Witness ==
    /\ writes = 1
    /\ priorFile = OldSnapshot
    /\ Len(packs) = 3
    /\ "failed" \in Outcomes
    /\ Len(dataFile.items) = 2

(***************************************************************************)
(* Vocabulary of the adapter claims (SpecFetch).                           *)
(***************************************************************************)
Called == result # NotCalled

ConfigKey == DictGet(call.creds, "coles_api_key")

\* A request goes out and a parsed body comes back: the pack names its
\* product, the Coles key can be resolved, and HTTP succeeds.
Answered ==
    /\ Truthy(call.pack.product_id)
    /\ call.pack.source = "coles" => (Truthy(ConfigKey) \/ Truthy(call.env))
    /\ call.reply.status = "ok"

\* The reply carries a total price where the adapter's row of the
\* specification places one, and no unit price.
SuppliesTotalOnly ==
    /\ Answered
    /\ call.reply.shape \in PriceShapes(call.pack.source)
    /\ call.reply.total.t = "num"
    /\ IsNone(call.reply.unit)

\* The payload's total is the reply's and its unit price the total divided
\* by the pack size.
PayloadIsTotalOverSize ==
    /\ result.exc = ""
    /\ result.payload.price_total = Flt(call.reply.total.n, 1)
    /\ result.payload.price_unit.t = "float"
    /\ result.payload.price_unit.num * call.pack.pack_size
            = call.reply.total.n * result.payload.price_unit.den

\* C5 as claimed: for every adapter, a reply with a total price and no unit
\* price, for a pack size above 0, yields a payload with that total and the
\* unit price total / pack size.
C5_Orig ==
    (Called /\ SuppliesTotalOnly /\ call.pack.pack_size > 0) => PayloadIsTotalOverSize

\* What the code does guarantee of the fallback: the same, for a total price
\* that is not 0 and a BWS reply that nests its price.
FallbackWhereTotalIsFound ==
    (/\ Called /\ SuppliesTotalOnly /\ call.pack.pack_size > 0
     /\ call.reply.total.n # 0
     /\ call.reply.shape \notin {"bws:flat", "bws:Price+flat"})
        => PayloadIsTotalOverSize

\* C6 as claimed: for every adapter, a reply with a total price and no unit
\* price, for a pack size that is not above 0, makes the fetch fail.
C6_Orig ==
    (Called /\ SuppliesTotalOnly /\ call.pack.pack_size <= 0) => result.exc # ""

\* What the code does guarantee there: the fetch fails for pack size 0.
FailsForPackSizeZero ==
    (Called /\ SuppliesTotalOnly /\ call.pack.pack_size = 0) => result.exc # ""

\* C8: without a key in the configuration credentials and with
\* COLES_API_KEY unset or empty, fetch_coles fails with the missing-key
\* error and issues no request, whatever else the pack holds; with a key in
\* the credentials, every request carries that key.
C8_ColesKeyResolution ==
    (Called /\ call.pack.source = "coles") =>
        /\ (~Truthy(ConfigKey) /\ ~Truthy(call.env)) =>
              /\ result.exc = "ValueError"
              /\ result.msg = "Coles API key missing"
              /\ result.sent = <<>>
        /\ Truthy(ConfigKey) =>
              \A k \in 1..Len(result.sent) : result.sent[k].key = ConfigKey.s
        /\ result.sent # <<>> => Truthy(ConfigKey) \/ Truthy(call.env)

\* C8 witness: no key anywhere, for a pack and a reply that would otherwise
\* give a price; the adapter has failed without a request.
C8_Witness ==
    /\ Called
    /\ call.pack.source = "coles"
    /\ ~Truthy(ConfigKey) /\ ~Truthy(call.env)
    /\ Truthy(call.pack.product_id)
    /\ call.reply.status = "ok"
    /\ call.reply.total = Num(30)
    /\ result.sent = <<>>
    /\ result.exc = "ValueError"

\* C8, second case: both keys set, a request sent with the configured one.
C8_WitnessConfigKeyUsed ==
    /\ Called
    /\ call.pack.source = "coles"
    /\ ConfigKey = Str("cfg-key") /\ call.env = Str("env-key")
    /\ Len(result.sent) = 1
    /\ result.sent[1].key = "cfg-key"

\* C9 as claimed: a BWS reply whose total price is the top-level "price"
\* number (no nested price object, or one without a current price) yields a
\* payload with that total and the unit price by the fallback rule.
C9_Orig ==
    (/\ Called /\ SuppliesTotalOnly /\ call.pack.pack_size > 0
     /\ call.pack.source = "bws"
     /\ call.reply.shape \in {"bws:flat", "bws:Price+flat"}
     /\ call.reply.total.n # 0)
        => PayloadIsTotalOverSize

\* What the code does guarantee for BWS: a nested price object's current or
\* ActualPrice is the total.
BwsNestedTotal ==
    (/\ Called /\ Answered /\ call.pack.source = "bws" /\ call.pack.pack_size > 0
     /\ call.reply.shape \in {"bws:price", "bws:Price"}
     /\ call.reply.total.t = "num" /\ call.reply.total.n # 0
     /\ call.reply.unit.t \in {"none", "num"})
        => result.exc = "" /\ result.payload.price_total = Flt(call.reply.total.n, 1)

(***************************************************************************)
(* C7: the path extractor as the specification states it.                  *)
(***************************************************************************)
RECURSIVE StatedExtract(_, _)
StatedExtract(current, parts) ==
    IF parts = <<>> THEN current
    ELSE IF IsNone(current) THEN None
    ELSE IF IsList(current) THEN
        LET idx == PyInt(Head(parts)) IN
        IF idx.exc = "" /\ idx.val >= 0 /\ idx.val < Len(current.items)
            THEN StatedExtract(current.items[idx.val + 1], Tail(parts))
            ELSE None
    ELSE IF IsDict(current) THEN
        StatedExtract(DictGet(current, Head(parts)), Tail(parts))
    ELSE None

\* A falsy dotted_path (None or ""), which has no segment to walk, is absent.
Stated(data, dotted_path) ==
    IF dotted_path = <<>> THEN None ELSE StatedExtract(data, dotted_path)

\* C7 as claimed: extract_path never raises, and yields absent whenever a
\* sequence meets a segment that is no index 0 .. len-1 of it.
C7_Orig ==
    xout # Pending =>
        /\ xout.exc = ""
        /\ xout.val = Stated(xdata, xpath)

\* What the code does guarantee: the same on paths without a negative
\* number among their segments.
ExtractOnNonNegativePaths ==
    (xout # Pending /\ \A k \in 1..Len(xpath) : xpath[k] \notin {"-1", "-3"}) =>
        /\ xout.exc = ""
        /\ xout.val = Stated(xdata, xpath)

\* C10: an adapter invocation raises or returns a payload whose
\* price_total and price_unit are numbers, and the record made of a payload
\* has both, for every reply and every pack size of the model, 0 included;
\* an invocation that raises leaves no record.
HasPrices(r) == IsNumber(r.price_total) /\ IsNumber(r.price_unit)

C10_PricesAlwaysPresent ==
    Called =>
        /\ result.exc = "" =>
              /\ HasPrices(result.payload)
              /\ record.exc = ""
              /\ HasPrices(record.val)
              /\ record.val.pack_size = call.pack.pack_size
        /\ result.exc # "" => record.exc # "" /\ IsNone(record.val)

\* C10 witness: a pack of size 0 whose reply carries a unit price, fetched
\* and made a record.
C10_Witness ==
    /\ Called
    /\ call.pack.pack_size = 0
    /\ call.reply.unit = Num(5)
    /\ result.exc = ""
    /\ HasPrices(record.val)

\* C10, second case: a pack of size 0 whose reply carries a total price and
\* no unit price; float(None) has raised and no record is made.
C10_WitnessNoUnitPrice ==
    /\ Called
    /\ SuppliesTotalOnly
    /\ call.reply.total = Num(30)
    /\ call.pack.pack_size = 0
    /\ result.exc = "TypeError"
    /\ IsNone(record.val)

\* C10 in a run of main(): every payload logged, every record in the result
\* list and every item written has both prices.
RecordsHavePrices ==
    /\ \A j \in 1..Len(log) : log[j].out.exc = "" => HasPrices(log[j].out.payload)
    /\ \A k \in 1..Len(entries) : HasPrices(entries[k])
    /\ writes > 0 => \A k \in 1..Len(dataFile.items) : HasPrices(dataFile.items[k])

=============================================================================
